---------------------------- MODULE Spec2Model ----------------------------
(***************************************************************************)
(* A model of src/RRT.py: the RRT planner (class RRT) with its sampler,    *)
(* nearest-node lookup, steering, play-area and collision checks, goal     *)
(* connection and path reconstruction.  Drawing (draw_graph, plot_circle)  *)
(* and main() change no planner state and are left out.                    *)
(*                                                                         *)
(* Arithmetic.  Coordinates and lengths are fixed-point numbers: the       *)
(* integer v stands for the real v / Unit.  Distances are kept as their    *)
(* squares, so every comparison of a distance the code makes (d against    *)
(* extend_length, d against path_resolution, the distance to the goal      *)
(* against expand_dis, a squared distance against size**2) and the floor   *)
(* of extend_length / path_resolution are computed exactly.  The one       *)
(* inexact operation of steer, path_resolution * cos(theta) and            *)
(* path_resolution * sin(theta), is rounded to the nearest representable   *)
(* value, as floating point rounds it at its own precision.  Lengths are   *)
(* non-negative in every configuration modelled.                           *)
(*                                                                         *)
(* A parent reference is the 1-based position of the parent in node_list;  *)
(* 0 stands for None.                                                      *)
(***************************************************************************)
EXTENDS Integers, Sequences, FiniteSets

VARIABLES
    cfg,         \* the constructor's arguments as stored on self
    pc,          \* "constructed", "planning", "done", "error"
    i,           \* number of loop iterations of planning() started so far
    node_list,   \* self.node_list
    rnd,         \* the last result of get_random_node, with the random draw
    steer_args,  \* the arguments of the last steer call that made new_node
    new_node,    \* the last node steer returned for a sample (or a direct call)
    final_node,  \* the last node steer returned for the goal connection
    result       \* what planning() returned or raised

vars == <<cfg, pc, i, node_list, rnd, steer_args, new_node, final_node, result>>

---------------------------------------------------------------------------
(* Bounds of the model *)

\* fixed-point subdivisions of 1.0
Unit == 10

\* max_iter of the configurations that are not one of the two scenarios
MaxIter == 3

---------------------------------------------------------------------------
(* Values *)

Sq(a) == a * a

Abs(a) == IF a < 0 THEN -a ELSE a

Sign(a) == IF a < 0 THEN -1 ELSE IF a > 0 THEN 1 ELSE 0

Point(x, y) == [x |-> x, y |-> y]

\* RRT.Node.__init__
Node(x, y) == [x |-> x, y |-> y, path_x |-> <<>>, path_y |-> <<>>, parent |-> 0]

\* the value None where a node is expected
NoNode == [x |-> 0, y |-> 0, path_x |-> <<>>, path_y |-> <<>>, parent |-> -1]

NoArgs == [called |-> FALSE, from |-> Point(0, 0), to |-> Point(0, 0), extend_length |-> 0]

NoRnd == [drawn |-> FALSE, draw |-> 0, x |-> 0, y |-> 0, goal_branch |-> FALSE]

\* RRT.AreaBounds.__init__ ; present = FALSE is play_area None
AreaBounds(xmin, xmax, ymin, ymax) ==
    [present |-> TRUE, xmin |-> xmin, xmax |-> xmax, ymin |-> ymin, ymax |-> ymax]

NoPlayArea == [present |-> FALSE, xmin |-> 0, xmax |-> 0, ymin |-> 0, ymax |-> 0]

Pending == [kind |-> "pending", path |-> <<>>]

---------------------------------------------------------------------------
(* Configurations: the arguments RRT.__init__ stores, unchecked *)

\* Scenario "trivial success" of the specification
TrivialCfg ==
    [start |-> Point(0, 0), goal |-> Point(5 * Unit, 0), obstacle_list |-> <<>>,
     min_rand |-> 0, max_rand |-> 5 * Unit, expand_dis |-> Unit,
     path_resolution |-> Unit, goal_sample_rate |-> 100, max_iter |-> 10,
     play_area |-> NoPlayArea]

\* Scenario "blocked path" of the specification
BlockedCfg ==
    [TrivialCfg EXCEPT !.obstacle_list = << <<2 * Unit, 0, Unit>> >>, !.max_iter = 5]

\* A small world with one obstacle in which the tree branches
GrowCfg ==
    [start |-> Point(0, 0), goal |-> Point(2 * Unit, Unit),
     obstacle_list |-> << <<Unit, Unit, 4>> >>,
     min_rand |-> 0, max_rand |-> 2 * Unit, expand_dis |-> 2 * Unit,
     path_resolution |-> Unit, goal_sample_rate |-> 5, max_iter |-> MaxIter,
     play_area |-> NoPlayArea]

\* The same world with a play area smaller than the sampling bounds
PlayAreaCfg == [GrowCfg EXCEPT !.play_area = AreaBounds(0, Unit, 0, 2 * Unit)]

\* A goal whose distance from the start is just under three sub-steps, with
\* an obstacle on the goal and a play area that keeps the tree at its root
ShortOfGoalCfg ==
    [start |-> Point(0, 0), goal |-> Point(27, 13),
     obstacle_list |-> << <<27, 13, 2>> >>,
     min_rand |-> 0, max_rand |-> 30, expand_dis |-> 30,
     path_resolution |-> 10, goal_sample_rate |-> 100, max_iter |-> MaxIter,
     play_area |-> AreaBounds(0, 10, 0, 10)]

ValidConfigs ==
    {TrivialCfg, BlockedCfg, PlayAreaCfg, ShortOfGoalCfg,
     GrowCfg,
     [GrowCfg EXCEPT !.goal_sample_rate = 0],
     [GrowCfg EXCEPT !.goal_sample_rate = 100],
     [PlayAreaCfg EXCEPT !.goal_sample_rate = 0]}

\* Arguments the specification calls invalid; __init__ stores them all the same
InvalidConfigs ==
    {[GrowCfg EXCEPT !.path_resolution = 0],
     [GrowCfg EXCEPT !.path_resolution = 3 * Unit],
     [GrowCfg EXCEPT !.expand_dis = 0],
     [GrowCfg EXCEPT !.goal_sample_rate = 101],
     [GrowCfg EXCEPT !.max_iter = 0]}

Configs == ValidConfigs \cup InvalidConfigs

\* The constraints the specification puts on a configuration
ValidParams(c) ==
    /\ c.expand_dis > 0
    /\ c.path_resolution > 0
    /\ c.path_resolution <= c.expand_dis
    /\ c.goal_sample_rate >= 0 /\ c.goal_sample_rate <= 100
    /\ c.max_iter > 0

\* Outcomes of random.randint(0, 100) that the model draws
RandIntOutcomes == {0, 5, 6, 100}

\* Outcomes of random.uniform(min_rand, max_rand) that the model draws
UniformOutcomes(c) == {v \in c.min_rand .. c.max_rand : (v - c.min_rand) % Unit = 0}

---------------------------------------------------------------------------
(* Geometry *)

\* the square of math.hypot(dx, dy)
Hypot2(dx, dy) == Sq(dx) + Sq(dy)

\* RRT.calc_distance_and_angle: d is kept as its square d2, theta as the
\* direction (dx, dy) it is the angle of
CalcDistanceAndAngle(from_node, to_node) ==
    LET dx == to_node.x - from_node.x
        dy == to_node.y - from_node.y
    IN  [d2 |-> Hypot2(dx, dy), dx |-> dx, dy |-> dy]

\* RRT.calc_dist_to_goal, squared
CalcDistToGoal2(c, x, y) == Hypot2(x - c.goal.x, y - c.goal.y)

\* len * |c| / sqrt(d2) rounded to the nearest integer, for 0 <= |c| <= sqrt(d2)
RoundedShare(len, c, d2) ==
    CHOOSE s \in 0 .. len :
        /\ s = 0 \/ Sq(2 * s - 1) * d2 <= 4 * Sq(len) * Sq(c)
        /\ Sq(2 * s + 1) * d2 > 4 * Sq(len) * Sq(c)

\* path_resolution * math.cos(theta), theta = atan2(dy, dx); atan2(0, 0) = 0
StepX(res, da) ==
    IF da.d2 = 0 THEN res ELSE Sign(da.dx) * RoundedShare(res, Abs(da.dx), da.d2)

\* path_resolution * math.sin(theta)
StepY(res, da) ==
    IF da.d2 = 0 THEN 0 ELSE Sign(da.dy) * RoundedShare(res, Abs(da.dy), da.d2)

\* steer lines 72-75: extend_length is cut to d, then
\* n_expand = math.floor(extend_length / path_resolution)   (res > 0)
NExpand(extend_length, d2, res) ==
    IF Sq(extend_length) > d2
    THEN CHOOSE n \in 0 .. (extend_length \div res) :
             Sq(n * res) <= d2 /\ Sq((n + 1) * res) > d2
    ELSE extend_length \div res

\* line 90 left out: the new node keeps the parent None of Node.__init__
SetParent_Forgotten(node, from_ind) == node

\* steer line 90: new_node.parent = from_node
SetParent(node, from_ind) == [node EXCEPT !.parent = from_ind]

\* steer lines 66-81: a copy of from_node walked n_expand sub-steps of
\* (sx, sy), every position recorded in path_x, path_y
Expand(from_node, n_expand, sx, sy) ==
    [x |-> from_node.x + n_expand * sx,
     y |-> from_node.y + n_expand * sy,
     path_x |-> [k \in 1 .. (n_expand + 1) |-> from_node.x + (k - 1) * sx],
     path_y |-> [k \in 1 .. (n_expand + 1) |-> from_node.y + (k - 1) * sy],
     parent |-> 0]

\* steer lines 83-88: within path_resolution of to_node, the node moves onto it
Snap(res, node, to_node) ==
    IF CalcDistanceAndAngle(node, to_node).d2 <= Sq(res)
    THEN [node EXCEPT !.path_x = Append(@, to_node.x),
                      !.path_y = Append(@, to_node.y),
                      !.x = to_node.x,
                      !.y = to_node.y]
    ELSE node

\* the direction and the sub-step count of steer, lines 67-75
Heading(res, da, extend_length) ==
    [n_expand |-> NExpand(extend_length, da.d2, res),
     sx |-> StepX(res, da), sy |-> StepY(res, da)]

\* RRT.steer for path_resolution = res > 0; from_ind is the position of
\* from_node in node_list (0 when from_node is not in the tree)
Steer(res, from_node, from_ind, to_node, extend_length) ==
    LET h == Heading(res, CalcDistanceAndAngle(from_node, to_node), extend_length)
    IN  SetParent(Snap(res, Expand(from_node, h.n_expand, h.sx, h.sy), to_node),
                  from_ind)

---------------------------------------------------------------------------
(* Sampling, nearest node, validation, path *)

\* RRT.get_random_node: draw is random.randint(0, 100), (ux, uy) the two
\* random.uniform results, used only on the first branch
GetRandomNode(c, draw, ux, uy) ==
    IF draw > c.goal_sample_rate
    THEN [drawn |-> TRUE, draw |-> draw, x |-> ux, y |-> uy, goal_branch |-> FALSE]
    ELSE [drawn |-> TRUE, draw |-> draw, x |-> c.goal.x, y |-> c.goal.y,
          goal_branch |-> TRUE]

\* RRT.get_nearest_node_index: dlist.index(min(dlist)), the first minimum
GetNearestNodeIndex(nl, rnd_node) ==
    LET dlist == [k \in 1 .. Len(nl) |->
                     Sq(nl[k].x - rnd_node.x) + Sq(nl[k].y - rnd_node.y)]
    IN  CHOOSE k \in 1 .. Len(nl) :
            /\ \A j \in 1 .. Len(nl) : dlist[k] <= dlist[j]
            /\ \A j \in 1 .. (k - 1) : dlist[j] > dlist[k]

\* check_if_outside_play_area without the test node.x > play_area.xmax
CheckIfOutsidePlayArea_NoXmax(node, play_area) ==
    IF ~play_area.present THEN TRUE
    ELSE IF \/ node.x < play_area.xmin
            \/ node.y < play_area.ymin \/ node.y > play_area.ymax
         THEN FALSE
         ELSE TRUE

\* RRT.check_if_outside_play_area: TRUE when the node may stay
CheckIfOutsidePlayArea(node, play_area) ==
    IF ~play_area.present THEN TRUE
    ELSE IF \/ node.x < play_area.xmin \/ node.x > play_area.xmax
            \/ node.y < play_area.ymin \/ node.y > play_area.ymax
         THEN FALSE
         ELSE TRUE

\* the test of line 169 with < in place of <=
ObstacleHit_Strict(node, ob) ==
    \E k \in 1 .. Len(node.path_x) :
        Sq(ob[1] - node.path_x[k]) + Sq(ob[2] - node.path_y[k]) < Sq(ob[3])

\* one obstacle of check_collision: min(d_list) <= size**2
ObstacleHit(node, ob) ==
    \E k \in 1 .. Len(node.path_x) :
        Sq(ob[1] - node.path_x[k]) + Sq(ob[2] - node.path_y[k]) <= Sq(ob[3])

\* RRT.check_collision: TRUE when the node is free of every obstacle
CheckCollision(node, obstacleList) ==
    IF node = NoNode THEN FALSE
    ELSE \A o \in 1 .. Len(obstacleList) : ~ObstacleHit(node, obstacleList[o])

\* the while loop of generate_final_course: the positions from node k up
\* the parent references, the node without parent excluded
RECURSIVE ChainToRoot(_, _)
ChainToRoot(nl, k) ==
    IF nl[k].parent = 0 THEN <<>>
    ELSE <<Point(nl[k].x, nl[k].y)>> \o ChainToRoot(nl, nl[k].parent)

\* the node the while loop of generate_final_course stops at
RECURSIVE RootOf(_, _)
RootOf(nl, k) == IF nl[k].parent = 0 THEN k ELSE RootOf(nl, nl[k].parent)

\* RRT.generate_final_course
GenerateFinalCourse(c, nl, goal_ind) ==
    LET root == nl[RootOf(nl, goal_ind)]
    IN  <<Point(c.goal.x, c.goal.y)>> \o ChainToRoot(nl, goal_ind)
            \o <<Point(root.x, root.y)>>

---------------------------------------------------------------------------
(* The planner *)

\* RRT.__init__: every argument is stored as given, node_list is empty
Init ==
    /\ cfg \in Configs
    /\ pc = "constructed"
    /\ i = 0
    /\ node_list = <<>>
    /\ rnd = NoRnd
    /\ steer_args = NoArgs
    /\ new_node = NoNode
    /\ final_node = NoNode
    /\ result = Pending

\* planning() is entered (line 41); a planner can be asked to plan again
Planning ==
    /\ pc \in {"constructed", "done", "error"}
    /\ pc' = "planning"
    /\ i' = 0
    /\ node_list' = <<Node(cfg.start.x, cfg.start.y)>>
    /\ rnd' = NoRnd
    /\ steer_args' = NoArgs
    /\ new_node' = NoNode
    /\ final_node' = NoNode
    /\ result' = Pending
    /\ UNCHANGED cfg

\* One iteration of the loop of planning() (lines 43-61) with
\* path_resolution # 0: sample, nearest, steer, validate, append, then the
\* goal connection from the last node of the tree.  The locals of the loop
\* body are bound once each, in the order the code assigns them.
Iterate(draw, ux, uy) ==
    /\ pc = "planning"
    /\ i < cfg.max_iter
    /\ cfg.path_resolution # 0
    /\ \E rnd_node \in {GetRandomNode(cfg, draw, ux, uy)} :
       \E nearest_ind \in {GetNearestNodeIndex(node_list, rnd_node)} :
       \E steered \in {Steer(cfg.path_resolution, node_list[nearest_ind], nearest_ind,
                            rnd_node, cfg.expand_dis)} :
       \E grown \in {IF /\ CheckIfOutsidePlayArea(steered, cfg.play_area)
                       /\ CheckCollision(steered, cfg.obstacle_list)
                    THEN Append(node_list, steered)
                    ELSE node_list} :
       \E last \in {grown[Len(grown)]} :
       \E near \in {CalcDistToGoal2(cfg, last.x, last.y) <= Sq(cfg.expand_dis)} :
       \E connect \in {Steer(cfg.path_resolution, last, Len(grown), cfg.goal,
                            cfg.expand_dis)} :
           /\ rnd' = rnd_node
           /\ steer_args' = [called |-> TRUE,
                             from |-> Point(node_list[nearest_ind].x, node_list[nearest_ind].y),
                             to |-> Point(rnd_node.x, rnd_node.y),
                             extend_length |-> cfg.expand_dis]
           /\ new_node' = steered
           /\ node_list' = grown
           /\ i' = i + 1
           /\ final_node' = IF near THEN connect ELSE final_node
           /\ IF near /\ CheckCollision(connect, cfg.obstacle_list)
              THEN /\ pc' = "done"
                   /\ result' = [kind |-> "path",
                                 path |-> GenerateFinalCourse(cfg, grown, Len(grown))]
              ELSE /\ pc' = "planning"
                   /\ result' = result
    /\ UNCHANGED cfg

\* An iteration with path_resolution = 0: the division of line 75, in the
\* first steer of the iteration, raises ZeroDivisionError out of planning()
IterateRaises(draw, ux, uy) ==
    /\ pc = "planning"
    /\ i < cfg.max_iter
    /\ cfg.path_resolution = 0
    /\ rnd' = GetRandomNode(cfg, draw, ux, uy)
    /\ i' = i + 1
    /\ pc' = "error"
    /\ result' = [kind |-> "ZeroDivisionError", path |-> <<>>]
    /\ UNCHANGED <<cfg, node_list, steer_args, new_node, final_node>>

\* The loop is exhausted: return None (line 63)
ReturnNone ==
    /\ pc = "planning"
    /\ i >= cfg.max_iter
    /\ pc' = "done"
    /\ result' = [kind |-> "None", path |-> <<>>]
    /\ UNCHANGED <<cfg, i, node_list, rnd, steer_args, new_node, final_node>>

Next ==
    \/ Planning
    \/ \E draw \in RandIntOutcomes : \E ux, uy \in UniformOutcomes(cfg) :
           Iterate(draw, ux, uy)
    \/ \E draw \in RandIntOutcomes : \E ux, uy \in UniformOutcomes(cfg) :
           IterateRaises(draw, ux, uy)
    \/ ReturnNone

Spec == Init /\ [][Next]_vars

---------------------------------------------------------------------------
(* steer called on its own, for inputs with 0 < path_resolution <= L *)

\* the largest coordinate of a target point
MaxSteerCoord == 35

SteerConfigs == {[GrowCfg EXCEPT !.path_resolution = r] : r \in {Unit \div 2, Unit}}

SteerFroms == {Point(0, 0), Point(17, 20)}

SteerLengths(c) == {c.path_resolution, 3 * Unit}

SteerInit ==
    /\ cfg \in SteerConfigs
    /\ pc = "constructed"
    /\ i = 0
    /\ node_list = <<>>
    /\ rnd = NoRnd
    /\ steer_args = NoArgs
    /\ new_node = NoNode
    /\ final_node = NoNode
    /\ result = Pending

\* steer(from_node, to_node, extend_length) on a constructed planner; one
\* call per behaviour, steer reads nothing an earlier call wrote
SteerCall(from, to, extend_length) ==
    /\ pc = "constructed"
    /\ ~steer_args.called
    /\ steer_args' = [called |-> TRUE, from |-> from, to |-> to,
                      extend_length |-> extend_length]
    /\ new_node' = Steer(cfg.path_resolution, Node(from.x, from.y), 0, to,
                         extend_length)
    /\ UNCHANGED <<cfg, pc, i, node_list, rnd, final_node, result>>

SteerNext ==
    /\ ~steer_args.called
    /\ \E from \in SteerFroms : \E tx, ty \in 0 .. MaxSteerCoord :
           \E extend_length \in SteerLengths(cfg) :
               SteerCall(from, Point(tx, ty), extend_length)

SteerSpec == SteerInit /\ [][SteerNext]_vars

---------------------------------------------------------------------------
(* Properties *)

Running == pc \in {"planning", "done", "error"}

Returned == pc = "done" /\ result.kind = "path"

\* the positions of the parent chain of node k, node k and the root included
RECURSIVE ChainIndices(_, _)
ChainIndices(nl, k) ==
    IF nl[k].parent = 0 THEN {k} ELSE {k} \cup ChainIndices(nl, nl[k].parent)

\* the recorded sub-step points of a node
SubSteps(node) == {Point(node.path_x[k], node.path_y[k]) : k \in 1 .. Len(node.path_x)}

\* every point of the returned path: its waypoints, the sub-step points of
\* the edges on the parent chain, the sub-step points of the last steer to
\* the goal
PathPoints ==
    {result.path[k] : k \in 1 .. Len(result.path)}
        \cup UNION {SubSteps(node_list[k]) : k \in ChainIndices(node_list, Len(node_list))}
        \cup SubSteps(final_node)

Clear(pt, ob) == Sq(pt.x - ob[1]) + Sq(pt.y - ob[2]) > Sq(ob[3])

Inside(node, area) ==
    /\ area.xmin <= node.x /\ node.x <= area.xmax
    /\ area.ymin <= node.y /\ node.y <= area.ymax

\* the n-th ancestor of node k (k itself for n = 0), 0 once past a node
\* without parent
RECURSIVE Ancestor(_, _, _)
Ancestor(nl, k, n) ==
    IF n = 0 THEN k
    ELSE LET a == Ancestor(nl, k, n - 1)
         IN  IF a \in 1 .. Len(nl) THEN nl[a].parent ELSE 0

\* C1: a returned path has the configured start as its first point and the
\* configured goal as its last point.
C1_PathRunsStartToGoal ==
    Returned =>
        /\ result.path[1] = cfg.start
        /\ result.path[Len(result.path)] = cfg.goal

\* C2: no point of a returned path (waypoints, sub-step points of the edges
\* of the parent chain, sub-step points of the last steer to the goal) is
\* within an obstacle: its squared distance to the centre exceeds the
\* squared radius.
C2_PathCollisionFree ==
    Returned =>
        \A o \in 1 .. Len(cfg.obstacle_list) : \A pt \in PathPoints :
            Clear(pt, cfg.obstacle_list[o])

\* C3: planning() runs at most max_iter iterations and never raises: it
\* returns None only when all max_iter iterations have run without a goal
\* connection, and a path in an iteration whose goal connection succeeds.
C3_PlanningNeverRaises ==
    /\ i <= cfg.max_iter
    /\ pc # "error"
    /\ result.kind \in {"pending", "None", "path"}
    /\ (pc = "done" /\ result.kind = "None") => i = cfg.max_iter
    /\ Returned => i >= 1 /\ CheckCollision(final_node, cfg.obstacle_list)

\* C4: with 0 < path_resolution <= L, the node steer returns is no farther
\* from `from` than min(L, distance(from, to)), and it is exactly `to` when
\* distance(from, to) <= path_resolution.
C4_SteerWithinExtendLength ==
    steer_args.called =>
        LET d2 == Hypot2(steer_args.to.x - steer_args.from.x,
                         steer_args.to.y - steer_args.from.y)
            reached2 == Hypot2(new_node.x - steer_args.from.x,
                               new_node.y - steer_args.from.y)
        IN  /\ reached2 <= d2
            /\ reached2 <= Sq(steer_args.extend_length)
            /\ d2 <= Sq(cfg.path_resolution) =>
                   Point(new_node.x, new_node.y) = steer_args.to

\* C5: with goal_sample_rate = 100 every sample is the goal point; with
\* goal_sample_rate = 0 no outcome of the random draw takes the goal branch.
C5_GoalBiasBoundary ==
    rnd.drawn =>
        /\ cfg.goal_sample_rate = 100 => Point(rnd.x, rnd.y) = cfg.goal
        /\ cfg.goal_sample_rate = 0 => ~rnd.goal_branch

\* C6: a planner with an invalid parameter is refused at construction, so
\* none reaches planning() and planning() raises no error for such a
\* parameter.
C6_InvalidParamsNeverPlan ==
    Running => ValidParams(cfg) /\ result.kind # "ZeroDivisionError"

\* C7: with a play area configured, every node of node_list but the root
\* lies inside the play area, bounds included.
C7_TreeInsidePlayArea ==
    cfg.play_area.present =>
        \A k \in 2 .. Len(node_list) : Inside(node_list[k], cfg.play_area)

\* C7 witness: a tree that has grown, and a steered node outside the play
\* area that was not appended
C7_Witness ==
    /\ cfg.play_area.present
    /\ Len(node_list) >= 2
    /\ new_node # NoNode
    /\ ~Inside(new_node, cfg.play_area)

\* C8: during planning() node_list is a rooted tree in insertion order: its
\* first node is the start and has no parent, every other node has a parent
\* at an earlier position, and the parent references lead from every node
\* to the root in fewer than len(node_list) steps without a repeat.
C8_RootedTree ==
    Running =>
        /\ Len(node_list) >= 1
        /\ node_list[1] = Node(cfg.start.x, cfg.start.y)
        /\ \A k \in 2 .. Len(node_list) : node_list[k].parent \in 1 .. (k - 1)
        /\ \A k \in 1 .. Len(node_list) :
               \E n \in 0 .. (Len(node_list) - 1) :
                   /\ Ancestor(node_list, k, n) = 1
                   /\ \A a, b \in 0 .. n :
                          a # b => Ancestor(node_list, k, a) # Ancestor(node_list, k, b)

\* C8 witness: a tree with a node whose parent is not the root
C8_Witness ==
    /\ pc = "planning"
    /\ \E k \in 2 .. Len(node_list) : node_list[k].parent > 1

\* C9: in the trivial-success scenario planning() returns, within 6
\* iterations, a path from (0,0) to (5,0) whose consecutive points are at
\* most 1 apart.
C9_TrivialSuccess ==
    cfg = TrivialCfg =>
        /\ i <= 6
        /\ pc = "done" =>
               /\ result.kind = "path"
               /\ result.path[1] = Point(0, 0)
               /\ result.path[Len(result.path)] = Point(5 * Unit, 0)
               /\ \A k \in 1 .. (Len(result.path) - 1) :
                      Hypot2(result.path[k + 1].x - result.path[k].x,
                             result.path[k + 1].y - result.path[k].y) <= Sq(Unit)

\* C10: in the blocked-path scenario every steered node has a sub-step point
\* at distance exactly the radius from the obstacle and is not appended,
\* node_list holds the root alone, and planning() returns None after all 5
\* iterations.
C10_BlockedPath ==
    cfg = BlockedCfg =>
        /\ new_node # NoNode =>
               \E k \in 1 .. Len(new_node.path_x) :
                   Sq(2 * Unit - new_node.path_x[k]) + Sq(new_node.path_y[k]) = Sq(Unit)
        /\ Running => node_list = <<Node(0, 0)>>
        /\ pc = "done" => result.kind = "None" /\ i = 5

\* C10 witness: the blocked scenario has run its 5 iterations and returned
\* None, the last steered node rejected
C10_Witness ==
    /\ cfg = BlockedCfg
    /\ pc = "done"
    /\ result.kind = "None"
    /\ i = 5
    /\ new_node # NoNode
    /\ ~CheckCollision(new_node, cfg.obstacle_list)

---------------------------------------------------------------------------
(* What the code does keep where a property above fails *)

\* A returned path has the goal as its first point and the start as its
\* last point, both exact (under Spec).
PathRunsGoalToStart ==
    Returned =>
        /\ result.path[1] = cfg.goal
        /\ result.path[Len(result.path)] = cfg.start

\* Every recorded sub-step point of the parent chain and of the last steer
\* is clear of every obstacle; only the goal waypoint can fail (under Spec).
RecordedPointsCollisionFree ==
    Returned =>
        \A o \in 1 .. Len(cfg.obstacle_list) :
            \A pt \in PathPoints \ {cfg.goal} : Clear(pt, cfg.obstacle_list[o])

\* With path_resolution # 0 planning() runs at most max_iter iterations and
\* ends with a path or with None, None only after max_iter iterations
\* (under Spec).
PlanningBoundedForNonzeroResolution ==
    cfg.path_resolution # 0 =>
        /\ i <= cfg.max_iter
        /\ pc # "error"
        /\ (pc = "done" /\ result.kind = "None") => i = cfg.max_iter
        /\ Returned => i >= 1 /\ CheckCollision(final_node, cfg.obstacle_list)

\* steer never passes `to`, and lands exactly on `to` when `to` is within
\* path_resolution of `from` (under SteerSpec).
SteerSnapsOntoNearTarget ==
    steer_args.called =>
        LET d2 == Hypot2(steer_args.to.x - steer_args.from.x,
                         steer_args.to.y - steer_args.from.y)
            reached2 == Hypot2(new_node.x - steer_args.from.x,
                               new_node.y - steer_args.from.y)
        IN  /\ reached2 <= d2
            /\ d2 <= Sq(cfg.path_resolution) =>
                   Point(new_node.x, new_node.y) = steer_args.to

\* With goal_sample_rate = 100 every sample is the goal point (under Spec).
EverySampleIsGoalAtRate100 ==
    (rnd.drawn /\ cfg.goal_sample_rate = 100) => Point(rnd.x, rnd.y) = cfg.goal

\* The trivial-success scenario returns a path in its 4th iteration (under
\* Spec).
TrivialScenarioSucceedsInFour ==
    cfg = TrivialCfg =>
        /\ i <= 4
        /\ pc = "done" => result.kind = "path" /\ i = 4

=============================================================================
